---- MODULE Spec2Model ----
(***************************************************************************)
(* Model of the hallmark analyzer pipeline (src/src/analyzer.rs and        *)
(* src/src/analyzer_data.rs): tokenizer, vocabulary builder with cutoff,   *)
(* co-occurrence matrix, hallmark seeded keyword rating with propagation,  *)
(* and article scoring.                                                    *)
(*                                                                         *)
(* Text is a sequence of one-character strings.  f32 values are modelled   *)
(* as exact non-negative rationals <<n, d>> in lowest terms (d > 0); the   *)
(* one non-finite value that the code can produce, 0.0 / 0.0, is NaN.      *)
(* The histogram, the progress bars and the two output files are written   *)
(* and never read back, and are left out.                                  *)
(***************************************************************************)
EXTENDS Integers, Sequences, FiniteSets, TLC

(***************************************************************************)
(* Characters                                                              *)
(***************************************************************************)
LowerCase == <<"a","b","c","d","e","f","g","h","i","j","k","l","m",
               "n","o","p","q","r","s","t","u","v","w","x","y","z">>

UpperCase == <<"A","B","C","D","E","F","G","H","I","J","K","L","M",
               "N","O","P","Q","R","S","T","U","V","W","X","Y","Z">>

\* the character class of the regular expression [.?,;()!\/'"%=]
Punctuation == {".", "?", ",", ";", "(", ")", "!", "/", "'", "\"", "%", "="}

IndexIn(c, alphabet) == CHOOSE k \in 1..Len(alphabet) : alphabet[k] = c

\* char::to_lowercase on the ASCII letters, as a table
LowerOf ==
    [c \in { UpperCase[k] : k \in 1..Len(UpperCase) } |->
        LowerCase[IndexIn(c, UpperCase)]]

to_lowercase(c) == IF c \in DOMAIN LowerOf THEN LowerOf[c] ELSE c

\* the byte value of each letter, the key of String's ordering
LetterCode ==
    [c \in { LowerCase[k] : k \in 1..Len(LowerCase) }
           \cup { UpperCase[k] : k \in 1..Len(UpperCase) } |->
        IF c \in DOMAIN LowerOf
        THEN 64 + IndexIn(c, UpperCase)
        ELSE 96 + IndexIn(c, LowerCase)]

\* the byte value of a character of the texts explored
CharCode(c) ==
    IF c \in DOMAIN LetterCode THEN LetterCode[c]
    ELSE IF c = " " THEN 32
    ELSE IF c = "-" THEN 45
    ELSE 33

\* Ord for String: byte-wise lexicographic
RECURSIVE StrLess(_, _)
StrLess(a, b) ==
    IF b = <<>> THEN FALSE
    ELSE IF a = <<>> THEN TRUE
    ELSE IF CharCode(Head(a)) < CharCode(Head(b)) THEN TRUE
    ELSE IF CharCode(Head(a)) > CharCode(Head(b)) THEN FALSE
    ELSE StrLess(Tail(a), Tail(b))

(***************************************************************************)
(* Tokenizer                                                               *)
(***************************************************************************)
\* re.replace_all(&paper_abstract, " ").to_string().to_lowercase()
Cleared(text) ==
    [k \in 1..Len(text) |->
        IF text[k] \in Punctuation THEN " " ELSE to_lowercase(text[k])]

\* str::split_whitespace: the maximal runs of non-whitespace characters
RECURSIVE SplitFrom(_, _, _)
SplitFrom(text, k, cur) ==
    IF k > Len(text) THEN (IF cur = <<>> THEN <<>> ELSE <<cur>>)
    ELSE IF text[k] = " "
         THEN (IF cur = <<>> THEN <<>> ELSE <<cur>>) \o SplitFrom(text, k + 1, <<>>)
         ELSE SplitFrom(text, k + 1, Append(cur, text[k]))

split_whitespace(text) == SplitFrom(text, 1, <<>>)

\* one pass of the while loop of clean_keyword; the loop repeats while a
\* pass changed the word
RECURSIVE clean_keyword(_)
clean_keyword(in_word) ==
    IF Len(in_word) > 4
    THEN LET r1 == IF Head(in_word) = "-" THEN Tail(in_word) ELSE in_word
             r2 == IF r1[Len(r1)] = "-" THEN SubSeq(r1, 1, Len(r1) - 1) ELSE r1
         IN  IF r2 = in_word THEN in_word ELSE clean_keyword(r2)
    ELSE in_word

\* Vec::sort on strings (insertion into a sorted sequence)
RECURSIVE InsertSorted(_, _)
InsertSorted(w, sorted) ==
    IF sorted = <<>> THEN <<w>>
    ELSE IF StrLess(w, Head(sorted)) THEN <<w>> \o sorted
    ELSE <<Head(sorted)>> \o InsertSorted(w, Tail(sorted))

RECURSIVE Sort(_)
Sort(ws) == IF ws = <<>> THEN <<>> ELSE InsertSorted(Head(ws), Sort(Tail(ws)))

\* Vec::dedup: removes consecutive repeated elements
RECURSIVE Dedup(_)
Dedup(ws) ==
    IF Len(ws) < 2 THEN ws
    ELSE IF ws[1] = ws[2] THEN Dedup(Tail(ws))
    ELSE <<Head(ws)>> \o Dedup(Tail(ws))

split_abstract_into_words(paper_abstract, dedupe) ==
    LET words    == split_whitespace(Cleared(paper_abstract))
        cleaned  == [k \in 1..Len(words) |-> clean_keyword(words[k])]
        retained == SelectSeq(cleaned, LAMBDA w : Len(w) > 4)
        sorted   == Sort(retained)
    IN  IF dedupe THEN Dedup(sorted) ELSE sorted

(***************************************************************************)
(* f32 arithmetic on non-negative values, as exact rationals               *)
(***************************************************************************)
RECURSIVE GCD(_, _)
GCD(a, b) == IF b = 0 THEN a ELSE GCD(b, a % b)

\* the value n / d in lowest terms
Rat(n, d) == LET g == GCD(n, d) IN <<n \div g, d \div g>>

Zero == Rat(0, 1)

One == Rat(1, 1)

\* 0.0 / 0.0
NaN == <<0, 0>>

\* x / 0.0 for x > 0.0
Inf == <<1, 0>>

IsFinite(x) == x[2] # 0

\* a + b
RAdd(a, b) ==
    IF a = NaN \/ b = NaN THEN NaN
    ELSE IF a = Inf \/ b = Inf THEN Inf
    ELSE LET g == GCD(a[2], b[2])
         IN  Rat(a[1] * (b[2] \div g) + b[1] * (a[2] \div g), (a[2] \div g) * b[2])

\* a * b
RMul(a, b) ==
    IF a = NaN \/ b = NaN THEN NaN
    ELSE IF a = Inf \/ b = Inf THEN (IF a = Zero \/ b = Zero THEN NaN ELSE Inf)
    ELSE LET g1 == GCD(a[1], b[2])
             g2 == GCD(b[1], a[2])
         IN  IF a[1] = 0 \/ b[1] = 0 THEN Zero
             ELSE <<(a[1] \div g1) * (b[1] \div g2), (a[2] \div g2) * (b[2] \div g1)>>

\* a / b
RDiv(a, b) ==
    IF a = NaN \/ b = NaN THEN NaN
    ELSE IF b = Inf THEN (IF a = Inf THEN NaN ELSE Zero)
    ELSE IF a = Inf THEN Inf
    ELSE IF b = Zero THEN (IF a = Zero THEN NaN ELSE Inf)
    ELSE RMul(a, <<b[2], b[1]>>)

\* a < b; every comparison with NaN is false
RLess(a, b) ==
    IF a = NaN \/ b = NaN THEN FALSE
    ELSE IF a = Inf THEN FALSE
    ELSE IF b = Inf THEN TRUE
    ELSE LET g == GCD(a[2], b[2])
         IN  a[1] * (b[2] \div g) < b[1] * (a[2] \div g)

\* a > b
RGreater(a, b) == RLess(b, a)

\* count as f32
FromInt(n) == Rat(n, 1)

\* f32::sqrt(count as f32): exact on perfect squares, otherwise the
\* correctly rounded f32 value (a multiple of 2^-23 between 1 and 2)
SqrtF32(n) ==
    CASE n = 1 -> Rat(1, 1)
      [] n = 2 -> Rat(11863283, 8388608)
      [] n = 3 -> Rat(14529495, 8388608)
      [] n = 4 -> Rat(2, 1)

\* sum of f[x] over the finite set S
RECURSIVE RSum(_, _)
RSum(f, S) ==
    IF S = {} THEN Zero
    ELSE LET x == CHOOSE y \in S : TRUE
         IN  RAdd(f[x], RSum(f, S \ {x}))

(***************************************************************************)
(* Inputs: the hallmark list and the article records                       *)
(***************************************************************************)
\* the static hallmark list (title, description); the third description
\* shares no word with any abstract
DEFAULT_HALLMARKS ==
    << [title |-> "H1", description |-> <<"A","l","p","h","a",".">>],
       [title |-> "H2",
        description |-> <<"a","l","p","h","a",","," ","(","d","e","l","t","a",")">>],
       [title |-> "H3", description |-> <<"s","i","g","m","a","-">>] >>

Hallmarks == 1..Len(DEFAULT_HALLMARKS)

\* article::Article records, reduced to the two fields the analyzer reads:
\* the identifier tested by rate_publications and the abstract
ArticleAlphaBetaAlpha ==
    [pmc |-> "PMC1",
     paper_abstract |-> <<"a","l","p","h","a"," ","b","e","t","a"," ",
                          "a","l","p","h","a">>]

ArticleBetaGamma ==
    [pmc |-> "PMC2",
     paper_abstract |-> <<"b","e","t","a"," ","g","a","m","m","a">>]

ArticleNoIdentifier ==
    [pmc |-> "",
     paper_abstract |-> <<"A","l","p","h","a",","," ","g","a","m","m","a",";",
                          " ","-","-","d","e","l","t","a","-">>]

ArticleDeltaGamma ==
    [pmc |-> "PMC4",
     paper_abstract |-> <<"d","e","l","t","a"," ","G","a","m","m","a","!",
                          "d","e","l","t","a","=","d","e","l","t","a","/",
                          "D","E","L","T","A">>]

ArticlePool ==
    {ArticleAlphaBetaAlpha, ArticleBetaGamma, ArticleNoIdentifier, ArticleDeltaGamma}

\* the longest corpus explored
MaxArticles == 3

\* the largest number of input files explored
MaxFiles == 3

\* the (lower_cutoff, upper_cutoff) arguments explored, all in [0, 1]
CutoffPairs ==
    { <<Rat(0, 1), Rat(1, 2)>>, <<Rat(0, 1), Rat(1, 1)>>,
      <<Rat(1, 2), Rat(1, 1)>>, <<Rat(1, 1), Rat(1, 1)>> }

\* the corpora: at most MaxArticles records dealt over n files in turn
Corpora(n) ==
    IF n = 0 THEN { <<>> }
    ELSE UNION { { [f \in 1..n |->
                      LET mine == { k \in 1..len : ((k - 1) % n) + 1 = f }
                      IN  [j \in 1..Cardinality(mine) |-> arts[(j - 1) * n + f]] ]
                   : arts \in [1..len -> ArticlePool] }
               : len \in 0..MaxArticles }

(***************************************************************************)
(* State                                                                   *)
(***************************************************************************)
VARIABLES
    pc,                 \* the stage of Analyzer::run that is executing
    filenames,          \* the input files, each the sequence of its articles
    lower_cutoff,       \* Analyzer.lower_cutoff
    upper_cutoff,       \* Analyzer.upper_cutoff
    pos,                \* articles already visited by the current corpus pass
    keyword_candidates, \* Analyzer.keyword_candidates: word -> count
    keywords_map,       \* AnalyzerData.keywords_map: word -> index
    n_keywords,         \* AnalyzerData.n_keywords
    relations,          \* AnalyzerData.relations: stored entries <<i, j>> -> value
    keyword_ratings,    \* AnalyzerData.keyword_ratings: per hallmark, stored entries
    cycle,              \* propagation steps done by compute_keyword_ratings
    unrated,            \* the tallies normalize_keyword_rating has returned
    article_ratings     \* rate_publications' output list

vars == <<pc, filenames, lower_cutoff, upper_cutoff, pos, keyword_candidates,
          keywords_map, n_keywords, relations, keyword_ratings, cycle, unrated,
          article_ratings>>

\* the articles in the order the nested loops over files and articles visit them
RECURSIVE Flatten(_)
Flatten(files) == IF files = <<>> THEN <<>> ELSE Head(files) \o Flatten(Tail(files))

Articles == Flatten(filenames)

\* Analyzer::new, detect_input_files, and the empty state of AnalyzerData
Init ==
    /\ pc = "analyze_dataset"
    /\ \E n \in 0..MaxFiles : filenames \in Corpora(n)
    /\ \E c \in CutoffPairs : lower_cutoff = c[1] /\ upper_cutoff = c[2]
    /\ pos = 0
    /\ keyword_candidates = <<>>
    /\ keywords_map = <<>>
    /\ n_keywords = 0
    /\ relations = <<>>
    /\ keyword_ratings = <<>>
    /\ cycle = 0
    /\ unrated = <<>>
    /\ article_ratings = <<>>

(***************************************************************************)
(* Vocabulary builder                                                      *)
(***************************************************************************)
\* HashMap entry(word).or_insert(0) followed by *counter += 1
Increment(hm, word) ==
    IF word \in DOMAIN hm
    THEN [hm EXCEPT ![word] = @ + 1]
    ELSE [w \in DOMAIN hm \cup {word} |-> IF w = word THEN 1 ELSE hm[w]]

RECURSIVE CountWords(_, _)
CountWords(hm, words) ==
    IF words = <<>> THEN hm ELSE CountWords(Increment(hm, Head(words)), Tail(words))

\* the tokens counted without deduplication
process_abstract_multiset(candidates, paper_abstract) ==
    CountWords(candidates, split_abstract_into_words(paper_abstract, FALSE))

process_abstract(candidates, paper_abstract) ==
    CountWords(candidates, split_abstract_into_words(paper_abstract, TRUE))

\* an upper bound that admits the bound itself
RetainedInclusive(count, lc, uc) ==
    RGreater(FromInt(count), lc) /\ ~RGreater(FromInt(count), uc)

\* the closure of retain: (count as f32) > lc && (count as f32) < uc
Retained(count, lc, uc) == RGreater(FromInt(count), lc) /\ RLess(FromInt(count), uc)

purge_keyword_array(candidates, n_files, lower, upper) ==
    LET lc   == RMul(lower, FromInt(n_files))
        uc   == RMul(upper, FromInt(n_files))
        keep == { w \in DOMAIN candidates : Retained(candidates[w], lc, uc) }
    IN  [w \in keep |-> candidates[w]]

\* one iteration of the article loop of analyze_one_input_file
ProcessAbstract ==
    /\ pc = "analyze_dataset"
    /\ pos < Len(Articles)
    /\ keyword_candidates' =
           process_abstract(keyword_candidates, Articles[pos + 1].paper_abstract)
    /\ pos' = pos + 1
    /\ UNCHANGED <<pc, filenames, lower_cutoff, upper_cutoff, keywords_map, n_keywords,
                   relations, keyword_ratings, cycle, unrated, article_ratings>>

\* the stored entries of one rating vector after AnalyzerData::new: every
\* index appended with 0.0
EmptyRating(n) == [i \in 0..(n - 1) |-> Zero]

\* the end of analyze_dataset: purge_keyword_array, then AnalyzerData::new on
\* the retained words in the HashMap's iteration order, which is arbitrary
PurgeAndIndex ==
    /\ pc = "analyze_dataset"
    /\ pos = Len(Articles)
    /\ LET kept == purge_keyword_array(keyword_candidates, Len(filenames),
                                       lower_cutoff, upper_cutoff)
           n    == Cardinality(DOMAIN kept)
       IN  /\ keyword_candidates' = kept
           /\ n_keywords' = n
           /\ \E order \in [DOMAIN kept -> 0..(n - 1)] :
                 /\ \A v, w \in DOMAIN kept : order[v] = order[w] => v = w
                 /\ keywords_map' = order
           /\ keyword_ratings' = [h \in Hallmarks |-> EmptyRating(n)]
    /\ relations' = <<>>
    /\ pc' = "build_relations_matrix"
    /\ pos' = 0
    /\ UNCHANGED <<filenames, lower_cutoff, upper_cutoff, cycle, unrated,
                   article_ratings>>

(***************************************************************************)
(* Co-occurrence engine                                                    *)
(***************************************************************************)
\* CsMat::get(i, j).unwrap_or(&0.0)
Get(rel, i, j) == IF <<i, j>> \in DOMAIN rel THEN rel[<<i, j>>] ELSE Zero

\* CsMat::insert(i, j, value)
Insert(rel, i, j, value) ==
    [e \in DOMAIN rel \cup {<<i, j>>} |-> IF e = <<i, j>> THEN value ELSE rel[e]]

\* the mirror image is not stored
StorePairOneSided(rel, ind_i, ind_j, next) == Insert(rel, ind_i, ind_j, next)

\* the two inserts of the inner loop body: the entry and its mirror image
StorePair(rel, ind_i, ind_j, next) ==
    Insert(Insert(rel, ind_i, ind_j, next), ind_j, ind_i, next)

\* the inner loop starts at i + 1: the diagonal is never incremented
RECURSIVE UpdatePairsOffDiagonal(_, _, _, _)
UpdatePairsOffDiagonal(rel, indices, i, j) ==
    IF i > Len(indices) THEN rel
    ELSE IF j > Len(indices) THEN UpdatePairsOffDiagonal(rel, indices, i + 1, i + 2)
    ELSE IF j = i THEN UpdatePairsOffDiagonal(rel, indices, i, j + 1)
    ELSE LET ind_i   == indices[i]
             ind_j   == indices[j]
             current == IF <<ind_i, ind_j>> \in DOMAIN rel
                        THEN rel[<<ind_i, ind_j>>] ELSE Zero
             next    == RAdd(current, One)
             stored  == [e \in DOMAIN rel \cup {<<ind_i, ind_j>>, <<ind_j, ind_i>>} |->
                            IF e \in {<<ind_i, ind_j>>, <<ind_j, ind_i>>}
                            THEN next ELSE rel[e]]
         IN  UpdatePairsOffDiagonal(stored, indices, i, j + 1)

\* for i in 0..n_relevant_words { for j in i..n_relevant_words { ... } }
\* (positions are 1-based here)
RECURSIVE UpdatePairs(_, _, _, _)
UpdatePairs(rel, indices, i, j) ==
    IF i > Len(indices) THEN rel
    ELSE IF j > Len(indices) THEN UpdatePairs(rel, indices, i + 1, i + 1)
    ELSE LET ind_i   == indices[i]
             ind_j   == indices[j]
             current == Get(rel, ind_i, ind_j)
             next    == RAdd(current, One)
         IN  UpdatePairs(StorePair(rel, ind_i, ind_j, next), indices, i, j + 1)

\* the indices of the words of the article that are keywords, in word order
RecognizedIndices(kmap, words) ==
    LET present_keywords == SelectSeq(words, LAMBDA w : w \in DOMAIN kmap)
    IN  [k \in 1..Len(present_keywords) |-> kmap[present_keywords[k]]]

update_with_article_data(rel, kmap, words) ==
    UpdatePairs(rel, RecognizedIndices(kmap, words), 1, 1)

\* CsMat::diag: the stored diagonal entries
Diag(rel) ==
    [i \in { e[1] : e \in { d \in DOMAIN rel : d[1] = d[2] } } |-> rel[<<i, i>>]]

\* the divisor is read from the matrix during the pass: once the diagonal
\* entry of a row has been divided, the entries right of it are divided by 1
divide_rows_by_diagonal_in_place(rel) ==
    [e \in DOMAIN rel |->
        RDiv(rel[e], IF <<e[1], e[1]>> \in DOMAIN rel /\ e[2] <= e[1]
                     THEN rel[<<e[1], e[1]>>] ELSE One)]

\* every stored entry of row i divided by the diagonal entry of row i as it
\* was when the pass began, or by 1.0 where no diagonal entry is stored
divide_rows_by_diagonal(rel) ==
    LET diag == Diag(rel)
    IN  [e \in DOMAIN rel |->
            RDiv(rel[e], IF e[1] \in DOMAIN diag THEN diag[e[1]] ELSE One)]

\* the abstract is tokenized without deduplication
UpdateWithArticleDataMultiset ==
    /\ pc = "build_relations_matrix"
    /\ pos < Len(Articles)
    /\ relations' =
           update_with_article_data(relations, keywords_map,
               split_abstract_into_words(Articles[pos + 1].paper_abstract, FALSE))
    /\ pos' = pos + 1
    /\ UNCHANGED <<pc, filenames, lower_cutoff, upper_cutoff, keyword_candidates,
                   keywords_map, n_keywords, keyword_ratings, cycle, unrated,
                   article_ratings>>

\* one iteration of the article loop of build_relations_matrix
UpdateWithArticleData ==
    /\ pc = "build_relations_matrix"
    /\ pos < Len(Articles)
    /\ relations' =
           update_with_article_data(relations, keywords_map,
               split_abstract_into_words(Articles[pos + 1].paper_abstract, TRUE))
    /\ pos' = pos + 1
    /\ UNCHANGED <<pc, filenames, lower_cutoff, upper_cutoff, keyword_candidates,
                   keywords_map, n_keywords, keyword_ratings, cycle, unrated,
                   article_ratings>>

\* the end of build_relations_matrix
DivideRowsByDiagonal ==
    /\ pc = "build_relations_matrix"
    /\ pos = Len(Articles)
    /\ relations' = divide_rows_by_diagonal(relations)
    /\ pc' = "compute_keyword_ratings"
    /\ UNCHANGED <<filenames, lower_cutoff, upper_cutoff, pos, keyword_candidates,
                   keywords_map, n_keywords, keyword_ratings, cycle, unrated,
                   article_ratings>>

(***************************************************************************)
(* Rating engine                                                           *)
(***************************************************************************)
\* CsVec::nnz_index(word).is_some(): the entry is stored
is_rating_non_zero(ratings, word, hallmark) == word \in DOMAIN ratings[hallmark]

\* the hallmark loop at the head of compute_keyword_ratings: each term of a
\* description that is a keyword adds 1.0 to that hallmark's rating of it
SeedRatings(ratings, kmap) ==
    [h \in Hallmarks |->
        LET terms == split_abstract_into_words(DEFAULT_HALLMARKS[h].description, TRUE)
            hits(i) == Cardinality({ k \in 1..Len(terms) :
                                       terms[k] \in DOMAIN kmap /\ kmap[terms[k]] = i })
        IN  [i \in DOMAIN ratings[h] |-> RAdd(ratings[h][i], FromInt(hits(i)))]]

\* the sum of the stored ratings of keyword i
RatingSum(ratings, i) ==
    LET stored == { h \in Hallmarks : is_rating_non_zero(ratings, i, h) }
    IN  RSum([h \in stored |-> ratings[h][i]], stored)

\* each hallmark's vector is scaled to sum to 1 over the keywords
NormalizedRatingsPerHallmark(ratings) ==
    [h \in Hallmarks |->
        [i \in DOMAIN ratings[h] |->
            LET sum     == RSum(ratings[h], DOMAIN ratings[h])
                current == ratings[h][i]
            IN  IF RGreater(sum, Zero) /\ RGreater(current, Zero)
                THEN RDiv(current, sum)
                ELSE current]]

\* sum is declared outside the keyword loop and never reset
NormalizedRatingsRunningSum(ratings) ==
    [h \in Hallmarks |->
        [i \in DOMAIN ratings[h] |->
            LET sum     == RSum([k \in 0..i |-> RatingSum(ratings, k)], 0..i)
                current == ratings[h][i]
            IN  IF RGreater(sum, Zero) /\ RGreater(current, Zero)
                THEN RDiv(current, sum)
                ELSE current]]

\* the rating matrix after normalize_keyword_rating
NormalizedRatings(ratings) ==
    [h \in Hallmarks |->
        [i \in DOMAIN ratings[h] |->
            LET sum     == RatingSum(ratings, i)
                current == ratings[h][i]
            IN  IF RGreater(sum, Zero) /\ RGreater(current, Zero)
                THEN RDiv(current, sum)
                ELSE current]]

\* the value normalize_keyword_rating returns
UnratedWords(ratings, n) ==
    Cardinality({ i \in 0..(n - 1) : ~RGreater(RatingSum(ratings, i), Zero) })

\* CsMat * CsVec: the dot product of each row with the vector over the
\* entries stored in both; a row whose product is 0 stores nothing
MatVec(rel, vec, n) ==
    LET dot(i) == LET both == { j \in DOMAIN vec : <<i, j>> \in DOMAIN rel }
                  IN  RSum([j \in both |-> RMul(rel[<<i, j>>], vec[j])], both)
        rows   == { i \in 0..(n - 1) : dot(i) # Zero }
    IN  [i \in rows |-> dot(i)]

update_rating(rel, ratings, n) == [h \in Hallmarks |-> MatVec(rel, ratings[h], n)]

\* let n_max_update_steps = 1
n_max_update_steps == 1

\* compute_keyword_ratings up to its first println: seeding and normalization
SeedAndNormalize ==
    /\ pc = "compute_keyword_ratings"
    /\ LET seeded == SeedRatings(keyword_ratings, keywords_map)
       IN  /\ keyword_ratings' = NormalizedRatings(seeded)
           /\ unrated' = Append(unrated, UnratedWords(seeded, n_keywords))
    /\ cycle' = 0
    /\ pc' = "update_rating"
    /\ UNCHANGED <<filenames, lower_cutoff, upper_cutoff, pos, keyword_candidates,
                   keywords_map, n_keywords, relations, article_ratings>>

\* one iteration of the update loop of compute_keyword_ratings
PropagateAndNormalize ==
    /\ pc = "update_rating"
    /\ cycle < n_max_update_steps
    /\ LET updated == update_rating(relations, keyword_ratings, n_keywords)
       IN  /\ keyword_ratings' = NormalizedRatings(updated)
           /\ unrated' = Append(unrated, UnratedWords(updated, n_keywords))
    /\ cycle' = cycle + 1
    /\ UNCHANGED <<pc, filenames, lower_cutoff, upper_cutoff, pos, keyword_candidates,
                   keywords_map, n_keywords, relations, article_ratings>>

\* compute_keyword_ratings returns; run goes on to rate_publications
FinishRatings ==
    /\ pc = "update_rating"
    /\ cycle = n_max_update_steps
    /\ pc' = "rate_publications"
    /\ pos' = 0
    /\ UNCHANGED <<filenames, lower_cutoff, upper_cutoff, keyword_candidates,
                   keywords_map, n_keywords, relations, keyword_ratings, cycle, unrated,
                   article_ratings>>

(***************************************************************************)
(* Article scorer                                                          *)
(***************************************************************************)
\* self.keywords_map.get(&word.0).unwrap() on a word that is no keyword:
\* Option::unwrap on None panics and the run aborts
UnwrapPanics(kmap, words) == \E k \in 1..Len(words) : words[k] \notin DOMAIN kmap

\* rate_article_keywords where every unwrap succeeds: the word counts, the
\* per hallmark totals over the stored ratings of each distinct word, and
\* the division by the grand total
rate_article_keywords(ratings, kmap, words, id) ==
    LET hm == CountWords(<<>>, words)
        component(w, h) == RMul(ratings[h][kmap[w]], SqrtF32(hm[w]))
        total(h) ==
            LET rated == { w \in DOMAIN hm : is_rating_non_zero(ratings, kmap[w], h) }
            IN  RSum([w \in rated |-> component(w, h)], rated)
        rating == [h \in Hallmarks |-> total(h)]
        sum    == RSum(rating, Hallmarks)
    IN  [i |-> id, r |-> [h \in Hallmarks |-> RDiv(rating[h], sum)]]

\* the range test written with negated comparisons, which a NaN passes
is_valid_negated(publication) ==
    LET rating_norm == RSum(publication.r, Hallmarks)
    IN  ~RLess(rating_norm, Rat(95, 100)) /\ ~RGreater(rating_norm, Rat(105, 100))

\* RatedPublication::is_valid
is_valid(publication) ==
    LET rating_norm == RSum(publication.r, Hallmarks)
    IN  RGreater(rating_norm, Rat(95, 100)) /\ RLess(rating_norm, Rat(105, 100))

\* one iteration of the article loop of rate_publications
RatePublication ==
    /\ pc = "rate_publications"
    /\ pos < Len(Articles)
    /\ LET article == Articles[pos + 1]
           words   == split_abstract_into_words(article.paper_abstract, FALSE)
           article_rating ==
               rate_article_keywords(keyword_ratings, keywords_map, words, article.pmc)
       IN  IF article.pmc = ""
           THEN /\ pc' = pc
                /\ pos' = pos + 1
                /\ article_ratings' = article_ratings
           ELSE IF UnwrapPanics(keywords_map, words)
           THEN /\ pc' = "panicked"
                /\ pos' = pos
                /\ article_ratings' = article_ratings
           ELSE /\ pc' = pc
                /\ pos' = pos + 1
                /\ article_ratings' =
                       IF is_valid(article_rating)
                       THEN Append(article_ratings, article_rating)
                       ELSE article_ratings
    /\ UNCHANGED <<filenames, lower_cutoff, upper_cutoff, keyword_candidates,
                   keywords_map, n_keywords, relations, keyword_ratings, cycle, unrated>>

\* the end of rate_publications: the output list is complete
FinishRatePublications ==
    /\ pc = "rate_publications"
    /\ pos = Len(Articles)
    /\ pc' = "done"
    /\ UNCHANGED <<filenames, lower_cutoff, upper_cutoff, pos, keyword_candidates,
                   keywords_map, n_keywords, relations, keyword_ratings, cycle, unrated,
                   article_ratings>>

(***************************************************************************)
(* Analyzer::run                                                           *)
(***************************************************************************)
Next ==
    \/ ProcessAbstract
    \/ PurgeAndIndex
    \/ UpdateWithArticleData
    \/ DivideRowsByDiagonal
    \/ SeedAndNormalize
    \/ PropagateAndNormalize
    \/ FinishRatings
    \/ RatePublication
    \/ FinishRatePublications

Spec == Init /\ [][Next]_vars

(***************************************************************************)
(* The rating engine driven with zero propagation steps: the seeding and   *)
(* the normalization of compute_keyword_ratings run again on the rating    *)
(* matrix they produced, and normalize_keyword_rating applied once more    *)
(***************************************************************************)
\* the most calls of normalize_keyword_rating explored in one run
MaxNormalizeCalls == 3

\* seeding and normalization again, no propagation step in between
SeedAndNormalizeAgain ==
    /\ pc = "update_rating"
    /\ cycle = 0
    /\ Len(unrated) < MaxNormalizeCalls
    /\ LET seeded == SeedRatings(keyword_ratings, keywords_map)
       IN  /\ keyword_ratings' = NormalizedRatings(seeded)
           /\ unrated' = Append(unrated, UnratedWords(seeded, n_keywords))
    /\ UNCHANGED <<pc, filenames, lower_cutoff, upper_cutoff, pos, keyword_candidates,
                   keywords_map, n_keywords, relations, cycle, article_ratings>>

\* normalize_keyword_rating on the matrix a normalization has produced
NormalizeAgain ==
    /\ pc = "update_rating"
    /\ Len(unrated) < MaxNormalizeCalls
    /\ keyword_ratings' = NormalizedRatings(keyword_ratings)
    /\ unrated' = Append(unrated, UnratedWords(keyword_ratings, n_keywords))
    /\ UNCHANGED <<pc, filenames, lower_cutoff, upper_cutoff, pos, keyword_candidates,
                   keywords_map, n_keywords, relations, cycle, article_ratings>>

NextSeeding ==
    \/ ProcessAbstract
    \/ PurgeAndIndex
    \/ UpdateWithArticleData
    \/ DivideRowsByDiagonal
    \/ SeedAndNormalize
    \/ SeedAndNormalizeAgain
    \/ PropagateAndNormalize
    \/ NormalizeAgain

SpecSeeding == Init /\ [][NextSeeding]_vars

(***************************************************************************)
(* Properties                                                              *)
(***************************************************************************)
WordAlpha == <<"a","l","p","h","a">>

WordBeta == <<"b","e","t","a">>

WordGamma == <<"g","a","m","m","a">>

Range(seq) == { seq[k] : k \in 1..Len(seq) }

\* the deduplicated tokens of the k-th article of the corpus
TokenSet(k) == Range(split_abstract_into_words(Articles[k].paper_abstract, TRUE))

CorpusWords == UNION { TokenSet(k) : k \in 1..Len(Articles) }

\* the number of articles whose deduplicated tokens contain w
DocFreq(w) == Cardinality({ k \in 1..Len(Articles) : w \in TokenSet(k) })

\* the pairs <<k, w>> such that w is a token of the k-th article
Occurrences ==
    LET arts == Articles
    IN  UNION { { <<k, w>> :
                    w \in Range(split_abstract_into_words(arts[k].paper_abstract, TRUE)) }
              : k \in 1..Len(arts) }

Keywords == 0..(n_keywords - 1)

\* the keyword indices recognized in the k-th article
RecognizedSet(k) == { keywords_map[w] : w \in TokenSet(k) \cap DOMAIN keywords_map }

\* keyword i has a positive rating for some hallmark
Rated(ratings, i) ==
    \E h \in Hallmarks : i \in DOMAIN ratings[h] /\ ratings[h][i] # Zero

Last(seq) == seq[Len(seq)]

\* a / b < c / d on integers, b and d positive
FracLess(a, b, c, d) == a * d < c * b

\* C1: scoring an eligible article never fails, whatever its tokens: the run
\* is never aborted by a word of the abstract that is not in the vocabulary
C1_ScoringNeverFails == pc # "panicked"

C2_Scenario ==
    /\ filenames = << <<ArticleAlphaBetaAlpha, ArticleBetaGamma>> >>
    /\ lower_cutoff = Zero
    /\ upper_cutoff = One

\* C2 as stated: in the two article scenario the candidates are counted as
\* alpha:1, beta:2, gamma:1 and the admitted vocabulary is {alpha, gamma}
C2_AsStated ==
    C2_Scenario =>
        /\ (pc = "analyze_dataset" /\ pos = 2) =>
               keyword_candidates =
                   [w \in {WordAlpha, WordBeta, WordGamma} |->
                       IF w = WordBeta THEN 2 ELSE 1]
        /\ pc # "analyze_dataset" => DOMAIN keywords_map = {WordAlpha, WordGamma}

\* C2 amended: in the two article scenario the candidates are counted as
\* alpha:1, gamma:1 (the four character token beta is discarded by the
\* tokenizer) and the admitted vocabulary is empty (a count of 1 is not
\* strictly below 1.0 x 1)
C2_EmptyVocabulary ==
    C2_Scenario =>
        /\ (pc = "analyze_dataset" /\ pos = 2) =>
               keyword_candidates = [w \in {WordAlpha, WordGamma} |-> 1]
        /\ pc # "analyze_dataset" => (DOMAIN keywords_map = {} /\ n_keywords = 0)

C2_ScenarioPurged == C2_Scenario /\ pc = "build_relations_matrix"

\* C3: after purge_keyword_array a word of the corpus is in the vocabulary
\* exactly if its document frequency c satisfies
\* lower_cutoff x files < c < upper_cutoff x files, both strict, and the
\* count kept for it is that document frequency
C3_RetainedStrictlyBetween ==
    pc # "analyze_dataset" =>
        LET occurs  == Occurrences
            words   == { o[2] : o \in occurs }
            freq(w) == Cardinality({ o \in occurs : o[2] = w })
        IN  /\ DOMAIN keywords_map \subseteq words
            /\ DOMAIN keyword_candidates = DOMAIN keywords_map
            /\ \A w \in words :
                  /\ w \in DOMAIN keywords_map <=>
                        /\ FracLess(lower_cutoff[1] * Len(filenames), lower_cutoff[2],
                                    freq(w), 1)
                        /\ FracLess(freq(w), 1,
                                    upper_cutoff[1] * Len(filenames), upper_cutoff[2])
                  /\ w \in DOMAIN keywords_map => keyword_candidates[w] = freq(w)

C3_RetainedAndRemoved ==
    /\ pc = "build_relations_matrix"
    /\ \E w \in DOMAIN keywords_map : DocFreq(w) = 2
    /\ \E w \in CorpusWords : w \notin DOMAIN keywords_map /\ DocFreq(w) = 1
    /\ \E w \in CorpusWords : w \notin DOMAIN keywords_map /\ DocFreq(w) = 3

\* an article whose identifier is not empty and that has a recognized word
\* with a positive rating
Scorable(k) ==
    /\ Articles[k].pmc # ""
    /\ \E i \in RecognizedSet(k) : Rated(keyword_ratings, i)

\* C4: every emitted Rated Publication has finite components that sum to a
\* value strictly inside (0.95, 1.05), and the output holds exactly the
\* scored articles that have a recognized word with a non-zero rating
C4_EmittedValid ==
    /\ \A k \in 1..Len(article_ratings) :
          LET r   == article_ratings[k].r
              sum == RSum(r, Hallmarks)
          IN  /\ \A h \in Hallmarks : IsFinite(r[h])
              /\ IsFinite(sum)
              /\ FracLess(95, 100, sum[1], sum[2])
              /\ FracLess(sum[1], sum[2], 105, 100)
    /\ pc \in {"rate_publications", "done", "panicked"} =>
          Len(article_ratings) = Cardinality({ k \in 1..pos : Scorable(k) })

C4_EmittedAndDiscarded ==
    /\ pc = "done"
    /\ Len(article_ratings) >= 1
    /\ \E k \in 1..Len(Articles) : Articles[k].pmc # "" /\ ~Scorable(k)

\* C5: after every call of normalize_keyword_rating the ratings of a keyword
\* that has a non-zero rating sum to 1 over the hallmarks, a keyword whose
\* ratings sum to 0 has only zero ratings, and the returned tally is the
\* number of those keywords
C5_RatingsSumToOne ==
    pc \in {"update_rating", "rate_publications", "done", "panicked"} =>
        /\ \A i \in Keywords :
              IF Rated(keyword_ratings, i)
              THEN RatingSum(keyword_ratings, i) = One
              ELSE \A h \in Hallmarks :
                      i \in DOMAIN keyword_ratings[h] => keyword_ratings[h][i] = Zero
        /\ Last(unrated) = Cardinality({ i \in Keywords : ~Rated(keyword_ratings, i) })

C5_SplitAndUnrated ==
    /\ pc = "update_rating"
    /\ cycle = 1
    /\ \E i \in Keywords : ~Rated(keyword_ratings, i)
    /\ \E i \in Keywords : \E h \in Hallmarks :
          /\ i \in DOMAIN keyword_ratings[h]
          /\ keyword_ratings[h][i] \notin {Zero, One}

\* C6: while update_with_article_data is being called the co-occurrence
\* matrix is symmetric
C6_RawSymmetric ==
    pc = "build_relations_matrix" =>
        \A i, j \in Keywords :
            /\ <<i, j>> \in DOMAIN relations <=> <<j, i>> \in DOMAIN relations
            /\ Get(relations, i, j) = Get(relations, j, i)

C6_OffDiagonalStored ==
    /\ pc = "build_relations_matrix"
    /\ \E i, j \in Keywords : i # j /\ Get(relations, i, j) = Rat(2, 1)

\* C7: before normalization entry (i, j) is the number of processed
\* articles whose recognized index set contains both i and j, the diagonal
\* entry (i, i) the number of processed articles that contain keyword i
C7_EntriesCountArticles ==
    pc = "build_relations_matrix" =>
        \A i, j \in Keywords :
            LET both == Cardinality({ k \in 1..pos : {i, j} \subseteq RecognizedSet(k) })
            IN  /\ Get(relations, i, j) = Rat(both, 1)
                /\ <<i, j>> \in DOMAIN relations <=> both > 0

C7_CountedTwiceAndOnce ==
    /\ pc = "build_relations_matrix"
    /\ pos = Len(Articles)
    /\ \E i, j \in Keywords :
          /\ i # j
          /\ Get(relations, i, i) = Rat(2, 1)
          /\ Get(relations, i, j) = Rat(1, 1)

\* C8: divide_rows_by_diagonal divides every stored entry of row i by the
\* diagonal entry (i, i) as it was before the pass, so a positive diagonal
\* entry becomes 1, and leaves a row without a stored diagonal entry as it is
C8_DividedByRawDiagonal ==
    [][(pc = "build_relations_matrix" /\ pc' = "compute_keyword_ratings") =>
          /\ DOMAIN relations' = DOMAIN relations
          /\ \A e \in DOMAIN relations :
                IF <<e[1], e[1]>> \in DOMAIN relations
                THEN /\ RMul(relations'[e], relations[<<e[1], e[1]>>]) = relations[e]
                     /\ relations'[<<e[1], e[1]>>] = One
                ELSE relations'[e] = relations[e]]_vars

C8_ProperFraction ==
    /\ pc = "compute_keyword_ratings"
    /\ \E i, j \in Keywords :
          /\ i < j
          /\ Get(relations, i, j) = Rat(1, 2)
          /\ Get(relations, j, i) = One

\* C9: with zero propagation steps, running the seeding and the
\* normalization again leaves the rating matrix as the first run produced
\* it, and normalize_keyword_rating leaves a normalized matrix unchanged
C9_SeedingIdempotent ==
    [][(pc = "update_rating" /\ pc' = "update_rating" /\ cycle' = cycle) =>
          /\ keyword_ratings' = keyword_ratings
          /\ Last(unrated') = Last(unrated)]_vars

C9_SeededTwice ==
    /\ pc = "update_rating"
    /\ cycle = 0
    /\ Len(unrated) = MaxNormalizeCalls
    /\ \E i, j \in Keywords :
          /\ i < j
          /\ keyword_ratings[1][i] = Rat(1, 2)
          /\ keyword_ratings[2][j] = One

\* C10: a keyword that is rated before a propagation step is rated after
\* update_rating and normalize_keyword_rating, and the unrated tally of the
\* step is not above the tally before it
C10_RatedStaysRated ==
    [][(pc = "update_rating" /\ cycle' = cycle + 1) =>
          /\ \A i \in Keywords :
                Rated(keyword_ratings, i) => Rated(keyword_ratings', i)
          /\ Last(unrated') <= Last(unrated)]_vars

C10_TallyDecreased ==
    /\ pc = "update_rating"
    /\ cycle = 1
    /\ Len(unrated) = 2
    /\ unrated[2] < unrated[1]

====
